---- MODULE Spec2Model ----
(***************************************************************************)
(* Model of server.py: the analyze-chart handler (model call, response     *)
(* parsing, fallback, 13-element enforcement) and the record store         *)
(* handlers.  A text is a sequence of one-character strings, as a Python   *)
(* str is; the regular expressions and json.loads work on the characters.  *)
(***************************************************************************)
EXTENDS Integers, Sequences, FiniteSets, TLC

\* ------------------------------------------------------------ bounds

\* How many elements beyond 13 a generated JSON array may carry.
MaxExtra == 1
\* The number of 13 of "exactly 13 values" (server.py line 165).
NCols == 13

\* ------------------------------------------------------------ characters

Q == "\""
Digits == <<"0", "1", "2", "3", "4", "5", "6", "7", "8", "9">>
IsDigit(c) == \E d \in 1..10 : Digits[d] = c
DigitVal(c) == (CHOOSE d \in 1..10 : Digits[d] = c) - 1
\* json.loads skips blanks between tokens; the texts use the space only.
IsWs(c) == c = " "

\* ------------------------------------------------------------ Python values

\* One record shape for every value json.loads can produce, so that any two
\* values compare: k is the type, n the number, s the characters of a str,
\* a the elements of a list (the values of a dict), keys the keys of a dict.
PyNum(n) == [k |-> "num", n |-> n, s |-> <<>>, a |-> <<>>, keys |-> <<>>]
PyStr(s) == [k |-> "str", n |-> 0, s |-> s, a |-> <<>>, keys |-> <<>>]
PyList(a) == [k |-> "list", n |-> 0, s |-> <<>>, a |-> a, keys |-> <<>>]
PyDict(keys, a) == [k |-> "dict", n |-> 0, s |-> <<>>, a |-> a, keys |-> keys]
PyBool(b) == [k |-> "bool", n |-> IF b THEN 1 ELSE 0, s |-> <<>>, a |-> <<>>, keys |-> <<>>]
PyNone == [k |-> "None", n |-> 0, s |-> <<>>, a |-> <<>>, keys |-> <<>>]

\* ------------------------------------------------------------ re.search

\* The least element of a non-empty set of indices.
Least(S) == CHOOSE j \in S : \A k \in S : j <= k

\* Index of the first occurrence of c in s at or after i, 0 when there is none.
IndexFrom(s, i, c) ==
    LET S == {j \in i..Len(s) : s[j] = c}
    IN  IF S = {} THEN 0 ELSE Least(S)

\* re.search(r'\{[^}]+\}', response, re.DOTALL): the leftmost "{" that is
\* followed by at least one character other than "}" and, later, by a "}";
\* the match ends at the first "}" after it.  <<from, to>>, or <<0, 0>>.
SearchFrom(s, i) ==
    LET S == {j \in i..(Len(s) - 1) :
                s[j] = "{" /\ s[j + 1] # "}" /\ IndexFrom(s, j + 2, "}") # 0}
    IN  IF S = {} THEN <<0, 0>> ELSE <<Least(S), IndexFrom(s, Least(S) + 2, "}")>>

\* The same search with the greedy pattern \{.*\}: from the leftmost "{" that
\* has a "}" after it to the last "}" of the text.
re_search_greedy(s) ==
    LET S == {j \in 1..Len(s) : s[j] = "{" /\ IndexFrom(s, j + 1, "}") # 0}
        E == {j \in 1..Len(s) : s[j] = "}"}
    IN  IF S = {} THEN <<0, 0>> ELSE <<Least(S), CHOOSE j \in E : \A k \in E : k <= j>>

re_search(s) == SearchFrom(s, 1)

\* ------------------------------------------------------------ json.loads

RECURSIVE SkipWs(_, _)
SkipWs(s, i) ==
    IF i <= Len(s) /\ IsWs(s[i]) THEN SkipWs(s, i + 1) ELSE i

Fail == [ok |-> FALSE, val |-> PyNone, pos |-> 0]
Ok(v, p) == [ok |-> TRUE, val |-> v, pos |-> p]

\* A string: from the opening quote at i to the next quote (the texts hold no
\* backslash, so no escape is to be decoded).
ParseString(s, i) ==
    LET j == IndexFrom(s, i + 1, Q)
    IN  IF j = 0 THEN Fail ELSE Ok(PyStr(SubSeq(s, i + 1, j - 1)), j + 1)

\* A number: "0", or a digit 1-9 and the digits after it (json's NUMBER_RE;
\* the texts hold no sign, fraction or exponent).
RECURSIVE ParseDigits(_, _, _)
ParseDigits(s, i, acc) ==
    IF i <= Len(s) /\ IsDigit(s[i])
    THEN ParseDigits(s, i + 1, acc * 10 + DigitVal(s[i]))
    ELSE Ok(PyNum(acc), i)

ParseNumber(s, i) ==
    IF s[i] = "0" THEN Ok(PyNum(0), i + 1) ELSE ParseDigits(s, i, 0)

\* Whether the characters of w stand in s from i on.
StartsWith(s, i, w) ==
    /\ i + Len(w) - 1 <= Len(s)
    /\ SubSeq(s, i, i + Len(w) - 1) = w

RECURSIVE ParseValue(_, _)
RECURSIVE ParseElems(_, _, _)
RECURSIVE ParsePairs(_, _, _, _)

\* JSONArray after the "[": the elements, "," between them, "]" at the end.
ParseElems(s, i, acc) ==
    LET v == ParseValue(s, i)
    IN  IF ~v.ok THEN Fail
        ELSE LET j == SkipWs(s, v.pos)
             IN  IF j > Len(s) THEN Fail
                 ELSE IF s[j] = "]" THEN Ok(PyList(Append(acc, v.val)), j + 1)
                 ELSE IF s[j] = "," THEN ParseElems(s, SkipWs(s, j + 1), Append(acc, v.val))
                 ELSE Fail

\* JSONObject after the "{": "key": value pairs, "," between them, "}" at the end.
ParsePairs(s, i, keys, vals) ==
    IF i > Len(s) \/ s[i] # Q THEN Fail
    ELSE LET key == ParseString(s, i)
         IN  IF ~key.ok THEN Fail
             ELSE LET c == SkipWs(s, key.pos)
                  IN  IF c > Len(s) \/ s[c] # ":" THEN Fail
                      ELSE LET v == ParseValue(s, SkipWs(s, c + 1))
                           IN  IF ~v.ok THEN Fail
                               ELSE LET j == SkipWs(s, v.pos)
                                        ks == Append(keys, key.val.s)
                                        vs == Append(vals, v.val)
                                    IN  IF j > Len(s) THEN Fail
                                        ELSE IF s[j] = "}" THEN Ok(PyDict(ks, vs), j + 1)
                                        ELSE IF s[j] = ","
                                             THEN ParsePairs(s, SkipWs(s, j + 1), ks, vs)
                                        ELSE Fail

\* scan_once: the value that starts at i.
ParseValue(s, i) ==
    IF i > Len(s) THEN Fail
    ELSE IF s[i] = Q THEN ParseString(s, i)
    ELSE IF s[i] = "{"
         THEN LET j == SkipWs(s, i + 1)
              IN  IF j <= Len(s) /\ s[j] = "}" THEN Ok(PyDict(<<>>, <<>>), j + 1)
                  ELSE ParsePairs(s, j, <<>>, <<>>)
    ELSE IF s[i] = "["
         THEN LET j == SkipWs(s, i + 1)
              IN  IF j <= Len(s) /\ s[j] = "]" THEN Ok(PyList(<<>>), j + 1)
                  ELSE ParseElems(s, j, <<>>)
    ELSE IF IsDigit(s[i]) THEN ParseNumber(s, i)
    ELSE IF StartsWith(s, i, <<"n", "u", "l", "l">>) THEN Ok(PyNone, i + 4)
    ELSE IF StartsWith(s, i, <<"t", "r", "u", "e">>) THEN Ok(PyBool(TRUE), i + 4)
    ELSE IF StartsWith(s, i, <<"f", "a", "l", "s", "e">>) THEN Ok(PyBool(FALSE), i + 5)
    ELSE Fail

\* json.loads(s): one value with blanks around it and nothing after it;
\* ok = FALSE stands for the JSONDecodeError.
json_loads(s) ==
    LET v == ParseValue(s, SkipWs(s, 1))
    IN  IF v.ok /\ SkipWs(s, v.pos) > Len(s) THEN v ELSE Fail

\* data.get(key, []): the value of the last pair with that key (json.loads
\* keeps the last of duplicate keys), the empty list when there is none.
RECURSIVE LastIndex(_, _, _)
LastIndex(keys, i, key) ==
    IF i = 0 THEN 0
    ELSE IF keys[i] = key THEN i
    ELSE LastIndex(keys, i - 1, key)

dict_get(data, key) ==
    LET i == LastIndex(data.keys, Len(data.keys), key)
    IN  IF i = 0 THEN PyList(<<>>) ELSE data.a[i]

\* ------------------------------------------------------------ re.findall

\* re.findall(r'\d+[,\d]*', response) with float(n.replace(',', '')) applied
\* to each match: a match starts at a digit and runs over the digits and
\* commas after it; its value is the number its digits spell.
RECURSIVE ScanNumber(_, _, _)
ScanNumber(s, i, acc) ==
    IF i <= Len(s) /\ IsDigit(s[i]) THEN ScanNumber(s, i + 1, acc * 10 + DigitVal(s[i]))
    ELSE IF i <= Len(s) /\ s[i] = "," THEN ScanNumber(s, i + 1, acc)
    ELSE <<acc, i>>

RECURSIVE FindNumbers(_, _, _)
FindNumbers(s, i, acc) ==
    LET S == {j \in i..Len(s) : IsDigit(s[j])}
    IN  IF S = {} THEN acc
        ELSE LET m == ScanNumber(s, Least(S), 0)
             IN  FindNumbers(s, m[2], Append(acc, m[1]))

\* The same scan with the pattern \d+ in place of \d+[,\d]*: a comma ends
\* the match.
RECURSIVE FindDigitRuns(_, _, _)
FindDigitRuns(s, i, acc) ==
    LET S == {j \in i..Len(s) : IsDigit(s[j])}
    IN  IF S = {} THEN acc
        ELSE LET m == ParseDigits(s, Least(S), 0)
             IN  FindDigitRuns(s, m.pos, Append(acc, m.val.n))

re_findall_digit_runs(s) == FindDigitRuns(s, 1, <<>>)

re_findall_numbers(s) == FindNumbers(s, 1, <<>>)

\* ------------------------------------------------------------ the handler's steps

\* str(n) for n >= 0, as characters.
RECURSIVE DecimalChars(_)
DecimalChars(n) ==
    IF n < 10 THEN <<Digits[n + 1]>>
    ELSE Append(DecimalChars(n \div 10), Digits[(n % 10) + 1])

\* f"Col {i+1}" for the 0-based index i+1-1, i.e. the label of the 1-based slot k.
ColLabel(k) == PyStr(<<"C", "o", "l", " ">> \o DecimalChars(k))

S_etiquetas == <<"e", "t", "i", "q", "u", "e", "t", "a", "s">>
S_valores == <<"v", "a", "l", "o", "r", "e", "s">>

\* The same with data["etiquetas"] and data["valores"] in place of
\* data.get(..., []): a missing key raises and the fallback is taken.
parse_response_key_error(response) ==
    LET json_match == re_search(response)
        data == json_loads(SubSeq(response, json_match[1], json_match[2]))
        numbers == re_findall_numbers(response)
    IN  IF /\ json_match[1] # 0 /\ data.ok
           /\ LastIndex(data.val.keys, Len(data.val.keys), S_etiquetas) # 0
           /\ LastIndex(data.val.keys, Len(data.val.keys), S_valores) # 0
        THEN [path |-> "json",
              etiquetas |-> dict_get(data.val, S_etiquetas),
              valores |-> dict_get(data.val, S_valores)]
        ELSE [path |-> "fallback",
              etiquetas |-> PyList([i \in 1..NCols |-> ColLabel(i)]),
              valores |-> PyList([i \in 1..(IF Len(numbers) < NCols THEN Len(numbers) ELSE NCols)
                                    |-> PyNum(numbers[i])])]

\* Lines 149-162: the JSON path, or on any exception inside it the fallback.
\* path tells which one produced the two locals.
parse_response(response) ==
    LET json_match == re_search(response)
        data == json_loads(SubSeq(response, json_match[1], json_match[2]))
        numbers == re_findall_numbers(response)
    IN  IF json_match[1] # 0 /\ data.ok
        THEN [path |-> "json",
              etiquetas |-> dict_get(data.val, S_etiquetas),
              valores |-> dict_get(data.val, S_valores)]
        ELSE [path |-> "fallback",
              etiquetas |-> PyList([i \in 1..NCols |-> ColLabel(i)]),
              valores |-> PyList([i \in 1..(IF Len(numbers) < NCols THEN Len(numbers) ELSE NCols)
                                    |-> PyNum(numbers[i])])]

\* len(v): defined for list, str and dict; a TypeError for the other types.
HasLen(v) == v.k \in {"list", "str", "dict"}
PyLen(v) == IF v.k = "list" THEN Len(v.a) ELSE IF v.k = "str" THEN Len(v.s) ELSE Len(v.keys)

\* v[:13] of a list or a str.
Slice13(v) ==
    IF v.k = "list" THEN PyList(SubSeq(v.a, 1, IF Len(v.a) < NCols THEN Len(v.a) ELSE NCols))
    ELSE PyStr(SubSeq(v.s, 1, IF Len(v.s) < NCols THEN Len(v.s) ELSE NCols))

Raised(text) == [err |-> text, val |-> PyNone]
Returned(v) == [err |-> "", val |-> v]

\* Lines 165-167 (pad = zeros) and 169-171 (pad = "Col k"): extend when
\* shorter than 13, then slice; pad[k] is the filler of slot k.
Ensure13(v, pad) ==
    IF ~HasLen(v) THEN Raised("TypeError: object has no len()")
    ELSE IF PyLen(v) < NCols /\ v.k # "list"
         THEN Raised("AttributeError: object has no attribute 'extend'")
    ELSE IF v.k = "dict" THEN Raised("TypeError: unhashable type: 'slice'")
    ELSE IF PyLen(v) < NCols
         THEN Returned(Slice13(PyList(v.a \o [i \in 1..(NCols - Len(v.a)) |-> pad[Len(v.a) + i]])))
    ELSE Returned(Slice13(v))

ensure_valores(valores) == Ensure13(valores, [k \in 1..NCols |-> PyNum(0)])
\* The same padding with the 0-based index as the label's number.
ensure_etiquetas_zero_based(etiquetas) ==
    Ensure13(etiquetas, [k \in 1..NCols |-> ColLabel(k - 1)])

ensure_etiquetas(etiquetas) == Ensure13(etiquetas, [k \in 1..NCols |-> ColLabel(k)])

\* sum(valores): 0 + each element in turn; only numbers (and bools) add.
RECURSIVE SumSeq(_, _)
SumSeq(a, i) == IF i > Len(a) THEN 0 ELSE a[i].n + SumSeq(a, i + 1)

Summable(v) == v.k = "list" /\ \A i \in 1..Len(v.a) : v.a[i].k \in {"num", "bool"}

\* The HTTP response of a handler.  status 200 carries the body fields; any
\* other status carries detail = <<prefix, str(e)>>, the two parts of the
\* f-string of the except clause.
Success(etiquetas, valores, suma_total, response) ==
    [status |-> 200, etiquetas |-> etiquetas, valores |-> valores,
     suma_total |-> suma_total, raw_response |-> response, detail |-> <<>>]

HTTPError(status, detail) ==
    [status |-> status, etiquetas |-> PyNone, valores |-> PyNone,
     suma_total |-> 0, raw_response |-> <<>>, detail |-> detail]

AnalyzeError(e) == HTTPError(500, <<"Error al analizar la imagen: ", e>>)

NoResponse == HTTPError(0, <<>>)

\* The same with the sum taken before the slice of line 167.
build_result_sum_before(response, etiquetas, valores) ==
    LET va == ensure_valores(valores)
        et == ensure_etiquetas(etiquetas)
    IN  IF va.err # "" THEN AnalyzeError(va.err)
        ELSE IF et.err # "" THEN AnalyzeError(et.err)
        ELSE IF ~Summable(va.val)
             THEN AnalyzeError("TypeError: unsupported operand type(s) for +")
        ELSE Success(et.val, va.val,
                     SumSeq(IF valores.k = "list" /\ Len(valores.a) > NCols
                            THEN valores.a ELSE va.val.a, 1), response)

\* Lines 164-184 on the two locals left by lines 149-162: enforcement, sum,
\* the body; an exception of any step ends in the except clause of line 183.
build_result(response, etiquetas, valores) ==
    LET va == ensure_valores(valores)
        et == ensure_etiquetas(etiquetas)
    IN  IF va.err # "" THEN AnalyzeError(va.err)
        ELSE IF et.err # "" THEN AnalyzeError(et.err)
        ELSE IF ~Summable(va.val)
             THEN AnalyzeError("TypeError: unsupported operand type(s) for +")
        ELSE Success(et.val, va.val, SumSeq(va.val.a, 1), response)

\* ------------------------------------------------------------ raw texts

\* The raw texts the model is made to return: some text, then possibly one
\* JSON object, then some more text.
Letters == <<"a", "b", "c", "d", "e", "f", "g", "h", "i", "j", "k", "l", "m",
             "n", "o", "p", "q", "r", "s", "t", "u", "v", "w", "x", "y", "z">>

RECURSIVE Join(_, _)
Join(texts, sep) ==
    IF Len(texts) = 0 THEN <<>>
    ELSE IF Len(texts) = 1 THEN texts[1]
    ELSE texts[1] \o sep \o Join(Tail(texts), sep)

\* json.dumps of a value, with ", " and ": " as separators.
RECURSIVE Render(_)
Render(v) ==
    IF v.k = "num" THEN DecimalChars(v.n)
    ELSE IF v.k = "str" THEN <<Q>> \o v.s \o <<Q>>
    ELSE IF v.k = "None" THEN <<"n", "u", "l", "l">>
    ELSE IF v.k = "bool" THEN (IF v.n = 1 THEN <<"t", "r", "u", "e">>
                                           ELSE <<"f", "a", "l", "s", "e">>)
    ELSE <<"[">> \o Join([i \in 1..Len(v.a) |-> Render(v.a[i])], <<",", " ">>) \o <<"]">>

\* The i-th label and the i-th value of a chart.
Label(i) == PyStr(<<Letters[i]>>)
Value(i) == PyNum(20 + i)

\* The lengths of the generated arrays.
Counts == {0, 2, NCols, NCols + MaxExtra}

\* A list of n labels; its last element is the plain label, a label with a
\* "}" in it, or a number where a string is expected.
LabelList(n, var) ==
    PyList([i \in 1..n |->
              IF i < n \/ var = "plain" THEN Label(i)
              ELSE IF var = "brace" THEN PyStr(<<Letters[i], "}">>)
              ELSE PyNum(5)])

\* A list of n values; its last element is the plain value, or a string, a
\* null or a true where a number is expected.
ValueList(n, var) ==
    PyList([i \in 1..n |->
              IF i < n \/ var = "plain" THEN Value(i)
              ELSE IF var = "string" THEN PyStr(DecimalChars(20 + i))
              ELSE IF var = "null" THEN PyNone
              ELSE PyBool(TRUE)])

LongStr == PyStr([i \in 1..(NCols + MaxExtra) |-> Letters[i]])
ShortStr == PyStr(<<"a", "b">>)

Absent == [present |-> FALSE, v |-> PyNone]
Present(v) == [present |-> TRUE, v |-> v]

EtChoices ==
    {Absent, Present(PyNone), Present(ShortStr), Present(LongStr)}
    \cup {Present(LabelList(n, var)) : n \in Counts, var \in {"plain", "brace", "number"}}

VaChoices ==
    {Absent, Present(PyNone), Present(PyNum(7)), Present(ShortStr), Present(LongStr)}
    \cup {Present(ValueList(n, var)) : n \in Counts, var \in {"plain", "string", "null", "bool"}}

Prefixes == {<<>>,
             <<"x", " ">>,
             <<"1", ",", "6", "8", "0", " ">>,
             <<"{", "x", "}", " ">>,
             <<"{", "}", " ">>}

Suffixes == {<<>>,
             <<" ", "9", "3", "0">>,
             <<" ", "{", Q, "v", "a", "l", "o", "r", "e", "s", Q, ":", " ", "[", "7", "]", "}">>}

\* What the model wrote: body "object" is a JSON object with the two fields
\* (each possibly absent), "broken" the same object with a stray comma
\* before its closing brace, "none" no object at all.
Gens ==
    [pre : Prefixes, body : {"object", "broken"}, et : EtChoices, va : VaChoices, post : Suffixes]
    \cup [pre : Prefixes, body : {"none"}, et : {Absent}, va : {Absent}, post : Suffixes]

Field(key, f) ==
    IF f.present THEN << <<Q>> \o key \o <<Q, ":", " ">> \o Render(f.v) >> ELSE <<>>

ObjectText(g) ==
    <<"{">> \o Join(Field(S_etiquetas, g.et) \o Field(S_valores, g.va), <<",", " ">>)
            \o (IF g.body = "broken" THEN <<",">> ELSE <<>>) \o <<"}">>

GenText(g) ==
    g.pre \o (IF g.body = "none" THEN <<"n", "o">> ELSE ObjectText(g)) \o g.post

\* ------------------------------------------------------------ state

\* The number of analyze-chart requests in flight together.
NumReqs == 2
\* The clock readings datetime.now() can return.
MaxClock == 1
\* The number of records the store can come to hold.
MaxIds == 1
\* The longest calculo_ids list of a send-email or WhatsApp-link request.
MaxCalculoIds == 2

Reqs == 1..NumReqs
Ids == 1..MaxIds
\* An identifier that is no ObjectId: ObjectId(calculation_id) raises on it.
BadId == 0
\* The identifiers a request can name: BadId, the ones insert_one hands out,
\* and one more ObjectId that no document ever has.
ReqIds == 0..(MaxIds + 1)

VARIABLES
    apiKey,     \* whether os.getenv("OPENAI_API_KEY") returns a key
    clock,      \* datetime.now()
    pc,         \* per request: "idle", "awaiting" (in send_message), "done"
    session,    \* per request: the session_id of its LlmChat, -1 before
    chats,      \* per request: how many LlmChat instances it created
    calls,      \* per request: how many send_message calls it issued
    locals,     \* per request: the handler's locals: response (line 146), path,
                \* etiquetas and valores (lines 149-162), e (line 183, as str(e))
    resp,       \* per request: the HTTP response
    store,      \* calculations_collection: _id -> document
    nextId,     \* the next _id insert_one hands out
    last,       \* the HTTP response of the last record-store request
    deliv,      \* the send-email or WhatsApp-link request in flight: its
                \* calculo_ids, the index of the next one, what each find_one
                \* returned (found) and the local calculos
    gen         \* what the model writes, when one text is under study

vars ==
    <<apiKey, clock, pc, session, chats, calls, locals, resp, store, nextId, last, deliv, gen>>

NoLocals == [response |-> <<>>, path |-> "", etiquetas |-> PyNone, valores |-> PyNone, e |-> ""]

\* The locals with the exception text e caught at line 183.
Caught(l, e) == [l EXCEPT !.e = e]

\* The locals after lines 146-162 on the text response.
WithResponse(response, p) ==
    [response |-> response, path |-> p.path, etiquetas |-> p.etiquetas,
     valores |-> p.valores, e |-> ""]

Parsed(response) == WithResponse(response, parse_response(response))

\* str(e) of the exception a response reports, "" for a success.
ErrorText(response) == IF response.status = 200 THEN "" ELSE response.detail[2]

\* The raw texts of the concurrent specification: a JSON object with two
\* labels and two values, a text without JSON, and an object whose "valores"
\* is null.
SomeGens ==
    {[pre |-> <<>>, body |-> "object", et |-> Present(LabelList(2, "plain")),
      va |-> Present(ValueList(2, "plain")), post |-> <<>>],
     [pre |-> <<"1", ",", "6", "8", "0", " ">>, body |-> "none", et |-> Absent,
      va |-> Absent, post |-> <<" ", "9", "3", "0">>],
     [pre |-> <<>>, body |-> "object", et |-> Absent,
      va |-> Present(PyNone), post |-> <<>>]}

Replies == {GenText(g) : g \in SomeGens}

\* The texts of the exceptions send_message can raise.
SendErrors == {"Connection error", "Rate limit exceeded"}

NoGen == [pre |-> <<>>, body |-> "none", et |-> Absent, va |-> Absent, post |-> <<>>]

NoLast ==
    [op |-> "", id |-> BadId, resolved |-> FALSE, status |-> 0, detail |-> <<>>,
     ids |-> <<>>, found |-> <<>>, count |-> 0]

NoDeliv == [op |-> "", calculo_ids |-> <<>>, i |-> 0, found |-> <<>>, calculos |-> <<>>]

InitCommon ==
    /\ clock = 0
    /\ pc = [r \in Reqs |-> "idle"]
    /\ session = [r \in Reqs |-> -1]
    /\ chats = [r \in Reqs |-> 0]
    /\ calls = [r \in Reqs |-> 0]
    /\ locals = [r \in Reqs |-> NoLocals]
    /\ resp = [r \in Reqs |-> NoResponse]
    /\ store = <<>>
    /\ nextId = 1
    /\ last = NoLast
    /\ deliv = NoDeliv

Init ==
    /\ apiKey \in BOOLEAN
    /\ gen = NoGen
    /\ InitCommon

\* ------------------------------------------------------------ analyze_chart

storeVars == <<store, nextId, last, deliv>>

\* The HTTPException of line 107, as the except clause of line 183 sees it.
NoKeyError == "HTTPException(500, 'API key no configurada')"

\* The same without the check of lines 106-107.
analyze_chart_no_key_check(r) ==
    /\ pc[r] = "idle"
    /\ session' = [session EXCEPT ![r] = clock]
    /\ chats' = [chats EXCEPT ![r] = @ + 1]
    /\ calls' = [calls EXCEPT ![r] = @ + 1]
    /\ pc' = [pc EXCEPT ![r] = "awaiting"]
    /\ UNCHANGED <<apiKey, clock, locals, resp, gen>>
    /\ UNCHANGED storeVars

\* Lines 103-146, up to the await of send_message: without a key the
\* HTTPException of line 107 is caught by line 183 and raised again.
analyze_chart(r) ==
    /\ pc[r] = "idle"
    /\ IF ~apiKey
       THEN /\ resp' = [resp EXCEPT ![r] = AnalyzeError(NoKeyError)]
            /\ locals' = [locals EXCEPT ![r] = Caught(@, NoKeyError)]
            /\ pc' = [pc EXCEPT ![r] = "done"]
            /\ UNCHANGED <<session, chats, calls>>
       ELSE /\ session' = [session EXCEPT ![r] = clock]
            /\ chats' = [chats EXCEPT ![r] = @ + 1]
            /\ calls' = [calls EXCEPT ![r] = @ + 1]
            /\ pc' = [pc EXCEPT ![r] = "awaiting"]
            /\ UNCHANGED <<resp, locals>>
    /\ UNCHANGED <<apiKey, clock, gen>>
    /\ UNCHANGED storeVars

\* The end of the handler: the locals p and the response result are the
\* request's own.
Finish(r, p, result) ==
    /\ locals' = [locals EXCEPT ![r] = Caught(p, ErrorText(result))]
    /\ resp' = [resp EXCEPT ![r] = result]

\* The same with valores as a list shared by the requests of the process:
\* what another request left in it stays in front of this request's values.
Respond_shared_valores(r, p) ==
    LET others == {q \in Reqs \ {r} : locals[q].path # "" /\ locals[q].valores.k = "list"}
        before == IF others = {} THEN <<>> ELSE locals[CHOOSE q \in others : TRUE].valores.a
        va == IF p.valores.k = "list" THEN PyList(before \o p.valores.a) ELSE p.valores
    IN  Finish(r, [p EXCEPT !.valores = va], build_result(p.response, p.etiquetas, va))

\* Lines 164-184 on the locals of lines 146-162.
Respond(r, p) == Finish(r, p, build_result(p.response, p.etiquetas, p.valores))

\* Lines 146-184 when send_message returns the text response.
send_message_returns(r, response) ==
    /\ pc[r] = "awaiting"
    /\ Respond(r, Parsed(response))
    /\ pc' = [pc EXCEPT ![r] = "done"]
    /\ UNCHANGED <<apiKey, clock, session, chats, calls, gen>>
    /\ UNCHANGED storeVars

\* The same with one more send_message after a first failure.
send_message_raises_retry(r, e) ==
    /\ pc[r] = "awaiting"
    /\ IF calls[r] < 2
       THEN /\ calls' = [calls EXCEPT ![r] = @ + 1]
            /\ UNCHANGED <<resp, pc, locals>>
       ELSE /\ resp' = [resp EXCEPT ![r] = AnalyzeError(e)]
            /\ locals' = [locals EXCEPT ![r] = Caught(@, e)]
            /\ pc' = [pc EXCEPT ![r] = "done"]
            /\ UNCHANGED calls
    /\ UNCHANGED <<apiKey, clock, session, chats, gen>>
    /\ UNCHANGED storeVars

\* Lines 146 and 183-184 when send_message raises an exception of text e.
send_message_raises(r, e) ==
    /\ pc[r] = "awaiting"
    /\ resp' = [resp EXCEPT ![r] = AnalyzeError(e)]
    /\ locals' = [locals EXCEPT ![r] = Caught(@, e)]
    /\ pc' = [pc EXCEPT ![r] = "done"]
    /\ UNCHANGED <<apiKey, clock, session, chats, calls, gen>>
    /\ UNCHANGED storeVars

\* Time passes.
Tick ==
    /\ clock < MaxClock
    /\ clock' = clock + 1
    /\ UNCHANGED <<apiKey, pc, session, chats, calls, locals, resp, gen>>
    /\ UNCHANGED storeVars

\* ------------------------------------------------------------ the record store

analyzeVars == <<apiKey, clock, pc, session, chats, calls, locals, resp, gen>>

Names == {"Ana", "Luis"}

\* Lines 186-210: one insert_one of the request's fields under a fresh _id.
save_calculation(nombre) ==
    /\ nextId <= MaxIds
    /\ store' = [i \in DOMAIN store \cup {nextId} |->
                   IF i = nextId THEN [nombre |-> nombre] ELSE store[i]]
    /\ nextId' = nextId + 1
    /\ last' = [NoLast EXCEPT !.op = "save", !.id = nextId, !.resolved = TRUE,
                              !.status = 200,
                              !.detail = <<"Calculo guardado exitosamente">>]
    /\ UNCHANGED <<deliv, analyzeVars>>

\* Lines 252-263: ObjectId() raises on a malformed identifier; delete_one
\* removes the document when there is one; the HTTPException(404) of line
\* 259 is raised inside the try, so the except of line 262 catches it and
\* raises a 500 in its place.
delete_calculation(calculation_id) ==
    /\ IF calculation_id = BadId
       THEN /\ last' = [NoLast EXCEPT !.op = "delete", !.id = calculation_id,
                                      !.status = 500,
                                      !.detail = <<"Error al eliminar el calculo: ",
                                                   "InvalidId">>]
            /\ UNCHANGED store
       ELSE IF calculation_id \in DOMAIN store
       THEN /\ store' = [i \in DOMAIN store \ {calculation_id} |-> store[i]]
            /\ last' = [NoLast EXCEPT !.op = "delete", !.id = calculation_id,
                                      !.resolved = TRUE, !.status = 200,
                                      !.detail = <<"Calculo eliminado exitosamente">>]
       ELSE /\ last' = [NoLast EXCEPT !.op = "delete", !.id = calculation_id,
                                      !.status = 500,
                                      !.detail = <<"Error al eliminar el calculo: ",
                                                   "HTTPException(404, 'Calculo no encontrado')">>]
            /\ UNCHANGED store
    /\ UNCHANGED <<nextId, deliv>>
    /\ UNCHANGED analyzeVars

\* The filter of lines 218-225: no search, or a search that the nombre of
\* the document matches (the names of the model match themselves only).
Searches == {""} \cup Names

Matches(doc, search) == search = "" \/ doc.nombre = search

\* sort("fecha", -1) over the documents S. The modelled document keeps no
\* fecha (it is the wall clock at the insert, and documents of the same
\* fecha come in any order), so every order of S is a possible result.
SortedByFechaDesc(S) ==
    {q \in [1..Cardinality(S) -> S] :
        \A a, b \in 1..Cardinality(S) : a # b => q[a] # q[b]}

\* limit(50).
ListLimit == 50

\* Lines 212-250: the matching documents, newest first, at most 50; the
\* collection is only read.
get_calculations(search) ==
    /\ \E q \in SortedByFechaDesc({i \in DOMAIN store : Matches(store[i], search)}) :
           last' = [NoLast EXCEPT !.op = "list", !.status = 200,
                                  !.ids = SubSeq(q, 1, IF Len(q) < ListLimit THEN Len(q)
                                                       ELSE ListLimit)]
    /\ UNCHANGED <<store, nextId, deliv>>
    /\ UNCHANGED analyzeVars

\* The calculo_ids lists of the requests.
IdLists == UNION {[1..n -> ReqIds] : n \in 0..MaxCalculoIds}

\* What aiosmtplib.send and the lines around it (384-392) do: the message is
\* sent, an SMTPException is raised, or another exception is (int() on the
\* port, the connection).
SmtpOutcomes == {"sent", "SMTPException", "Exception"}

\* Lines 265-271 and 410-416: the handler starts with an empty calculos.
StartDelivery(op, calculo_ids) ==
    /\ deliv.op = ""
    /\ deliv' = [op |-> op, calculo_ids |-> calculo_ids, i |-> 1, found |-> <<>>,
                 calculos |-> <<>>]
    /\ UNCHANGED <<store, nextId, last>>
    /\ UNCHANGED analyzeVars

send_email(calculo_ids) == StartDelivery("send_email", calculo_ids)

generar_whatsapp_link(calculo_ids) == StartDelivery("generar_whatsapp_link", calculo_ids)

ErrorPrefix(op) ==
    IF op = "send_email" THEN "Error al enviar email: "
    ELSE "Error al generar enlace de WhatsApp: "

\* The same without the 'except HTTPException: raise' clause: the 404 is
\* caught by 'except Exception' and becomes a 500, as in delete_calculation.
delivery_response_no_reraise(op, found, calculos, smtp) ==
    IF calculos = <<>>
    THEN [NoLast EXCEPT !.op = op, !.found = found, !.status = 500,
                        !.detail = <<ErrorPrefix(op),
                                     "HTTPException(404, 'No se encontraron calculos')">>]
    ELSE IF op = "send_email" /\ smtp = "SMTPException"
    THEN [NoLast EXCEPT !.op = op, !.found = found, !.status = 500,
                        !.detail = <<"Error SMTP: ", smtp>>]
    ELSE IF op = "send_email" /\ smtp = "Exception"
    THEN [NoLast EXCEPT !.op = op, !.found = found, !.status = 500,
                        !.detail = <<ErrorPrefix(op), smtp>>]
    ELSE [NoLast EXCEPT !.op = op, !.found = found, !.resolved = TRUE, !.status = 200,
                        !.count = Len(calculos)]

\* Lines 277-408 and 422-470, after the loop: 404 when calculos is empty (the
\* 'except HTTPException: raise' of lines 405 and 467 lets it through); for
\* send_email the outcome of the SMTP send; else the success response with
\* len(calculos).
delivery_response(op, found, calculos, smtp) ==
    IF calculos = <<>>
    THEN [NoLast EXCEPT !.op = op, !.found = found, !.status = 404,
                        !.detail = <<"No se encontraron calculos">>]
    ELSE IF op = "send_email" /\ smtp = "SMTPException"
    THEN [NoLast EXCEPT !.op = op, !.found = found, !.status = 500,
                        !.detail = <<"Error SMTP: ", smtp>>]
    ELSE IF op = "send_email" /\ smtp = "Exception"
    THEN [NoLast EXCEPT !.op = op, !.found = found, !.status = 500,
                        !.detail = <<ErrorPrefix(op), smtp>>]
    ELSE [NoLast EXCEPT !.op = op, !.found = found, !.resolved = TRUE, !.status = 200,
                        !.count = Len(calculos)]

\* The same with a lookup that marks the document it returns as sent
\* (find_one_and_update): the stored document changes.
find_one_marks_sent ==
    /\ deliv.op # "" /\ deliv.i <= Len(deliv.calculo_ids)
    /\ LET calculo_id == deliv.calculo_ids[deliv.i]
       IN  IF calculo_id = BadId
           THEN /\ last' = [NoLast EXCEPT !.op = deliv.op, !.found = deliv.found,
                                          !.status = 500,
                                          !.detail = <<ErrorPrefix(deliv.op), "InvalidId">>]
                /\ deliv' = NoDeliv
                /\ UNCHANGED store
           ELSE /\ deliv' = [deliv EXCEPT
                                !.i = @ + 1,
                                !.found = Append(@, calculo_id \in DOMAIN store),
                                !.calculos = IF calculo_id \in DOMAIN store
                                             THEN Append(@, store[calculo_id]) ELSE @]
                /\ store' = [i \in DOMAIN store |->
                               IF i = calculo_id THEN [nombre |-> "enviado"] ELSE store[i]]
                /\ UNCHANGED last
    /\ UNCHANGED nextId
    /\ UNCHANGED analyzeVars

\* Lines 272-275 and 417-420, one iteration: ObjectId() raises on a
\* malformed identifier (the handler ends with a 500); find_one returns the
\* document or None, and the document is appended to calculos.
find_one ==
    /\ deliv.op # "" /\ deliv.i <= Len(deliv.calculo_ids)
    /\ LET calculo_id == deliv.calculo_ids[deliv.i]
       IN  IF calculo_id = BadId
           THEN /\ last' = [NoLast EXCEPT !.op = deliv.op, !.found = deliv.found,
                                          !.status = 500,
                                          !.detail = <<ErrorPrefix(deliv.op), "InvalidId">>]
                /\ deliv' = NoDeliv
           ELSE /\ deliv' = [deliv EXCEPT
                                !.i = @ + 1,
                                !.found = Append(@, calculo_id \in DOMAIN store),
                                !.calculos = IF calculo_id \in DOMAIN store
                                             THEN Append(@, store[calculo_id]) ELSE @]
                /\ UNCHANGED last
    /\ UNCHANGED <<store, nextId>>
    /\ UNCHANGED analyzeVars

\* The rest of the handler, once the loop is over.
Deliver(smtp) ==
    /\ deliv.op # "" /\ deliv.i > Len(deliv.calculo_ids)
    /\ deliv.op = "generar_whatsapp_link" => smtp = "sent"
    /\ last' = delivery_response(deliv.op, deliv.found, deliv.calculos, smtp)
    /\ deliv' = NoDeliv
    /\ UNCHANGED <<store, nextId>>
    /\ UNCHANGED analyzeVars

\* Lines 472-606 and 608-661: the calculations come in the request; the
\* collection is not touched.
DeliverLocal(op, n, smtp) ==
    /\ op = "generar_whatsapp_link" => smtp = "sent"
    /\ last' = [delivery_response(op, [k \in 1..n |-> TRUE],
                                  [k \in 1..n |-> [nombre |-> "Ana"]], smtp)
                  EXCEPT !.op = IF op = "send_email" THEN "send_email_local"
                                ELSE "generar_whatsapp_link_local"]
    /\ UNCHANGED <<store, nextId, deliv>>
    /\ UNCHANGED analyzeVars

send_email_local(n, smtp) == DeliverLocal("send_email", n, smtp)

generar_whatsapp_link_local(n) == DeliverLocal("generar_whatsapp_link", n, "sent")

\* ------------------------------------------------------------ specifications

Next ==
    \/ \E r \in Reqs : analyze_chart(r)
    \/ \E r \in Reqs, response \in Replies : send_message_returns(r, response)
    \/ \E r \in Reqs, e \in SendErrors : send_message_raises(r, e)
    \/ Tick
    \/ \E nombre \in Names : save_calculation(nombre)
    \/ \E id \in Ids \cup {BadId} : delete_calculation(id)

Spec == Init /\ [][Next]_vars

\* One request whose model call returns the text of gen: the normalizer on
\* every generated text.
InitNorm ==
    /\ apiKey = TRUE
    /\ gen \in Gens
    /\ InitCommon

NextNorm ==
    \/ analyze_chart(1)
    \/ send_message_returns(1, GenText(gen))

SpecNorm == InitNorm /\ [][NextNorm]_vars

\* The handlers of the record store and of the deliveries, taken together.
InitStore ==
    /\ apiKey = TRUE
    /\ gen = NoGen
    /\ InitCommon

NextStore ==
    \/ \E nombre \in Names : save_calculation(nombre)
    \/ \E search \in Searches : get_calculations(search)
    \/ \E id \in Ids \cup {BadId} : delete_calculation(id)
    \/ \E calculo_ids \in IdLists : send_email(calculo_ids)
    \/ \E calculo_ids \in IdLists : generar_whatsapp_link(calculo_ids)
    \/ find_one
    \/ \E smtp \in SmtpOutcomes : Deliver(smtp)
    \/ \E n \in 0..MaxCalculoIds, smtp \in SmtpOutcomes : send_email_local(n, smtp)
    \/ \E n \in 0..MaxCalculoIds : generar_whatsapp_link_local(n)

SpecStore == InitStore /\ [][NextStore]_vars

\* ------------------------------------------------------------ claims

Done(r) == pc[r] = "done"
\* The request received a text from the model (and went through lines 148-181).
Replied(r) == Done(r) /\ locals[r].path # ""
IsListOf(v, n) == v.k = "list" /\ Len(v.a) = n
First13(a) == SubSeq(a, 1, NCols)

\* C1: every successful response of analyze_chart carries a list of exactly
\* 13 labels and a list of exactly 13 values, whatever the raw text was.
C1_ThirteenLabelsAndValues ==
    \A r \in Reqs :
        resp[r].status = 200 =>
            IsListOf(resp[r].etiquetas, NCols) /\ IsListOf(resp[r].valores, NCols)

\* C2: whatever raw text the model returns, the request ends with a
\* 13-element result and never with an error response.
C2_NormalizationNeverFails ==
    \A r \in Reqs :
        Replied(r) =>
            /\ resp[r].status = 200
            /\ PyLen(resp[r].etiquetas) = NCols
            /\ PyLen(resp[r].valores) = NCols

\* C3: in every successful response suma_total is the sum of the 13 values
\* of that same response; a 14th or later extracted value does not count.
C3_TotalIsSumOfReturned ==
    \A r \in Reqs :
        resp[r].status = 200 =>
            /\ Len(resp[r].valores.a) <= NCols
            /\ resp[r].suma_total = SumSeq(resp[r].valores.a, 1)

C3_Witness ==
    \E r \in Reqs :
        /\ resp[r].status = 200
        /\ locals[r].valores.k = "list"
        /\ Len(locals[r].valores.a) > NCols
        /\ locals[r].valores.a[NCols + 1].n > 0

\* The raw text holds a well-formed JSON object whose "etiquetas" is an
\* array of 13 or more strings and whose "valores" is an array of 13 or more
\* numbers.
WellFormedLong(g) ==
    /\ g.body = "object"
    /\ g.et.present /\ g.et.v.k = "list" /\ Len(g.et.v.a) >= NCols
    /\ \A i \in 1..Len(g.et.v.a) : g.et.v.a[i].k = "str"
    /\ g.va.present /\ g.va.v.k = "list" /\ Len(g.va.v.a) >= NCols
    /\ \A i \in 1..Len(g.va.v.a) : g.va.v.a[i].k = "num"

\* C4: when the raw text holds a well-formed JSON object whose "etiquetas"
\* and "valores" arrays have 13 or more elements, the result's labels and
\* values are the first 13 elements of each array, in their order.
C4_FirstThirteenOfWellFormed ==
    \A r \in Reqs :
        (Replied(r) /\ locals[r].response = GenText(gen) /\ WellFormedLong(gen)) =>
            /\ resp[r].status = 200
            /\ resp[r].etiquetas = PyList(First13(gen.et.v.a))
            /\ resp[r].valores = PyList(First13(gen.va.v.a))

\* C5: when a parsed JSON array has n < 13 elements, the result keeps the n
\* elements as its prefix and pads the tail, values with zeros and labels
\* with "Col k" for the 1-based slot k = n+1..13, each list by its own length.
C5_ShortArraysArePadded ==
    \A r \in Reqs :
        (resp[r].status = 200 /\ locals[r].path = "json") =>
            /\ (locals[r].valores.k = "list" /\ Len(locals[r].valores.a) < NCols) =>
                   /\ IsListOf(resp[r].valores, NCols)
                   /\ \A i \in 1..NCols :
                          resp[r].valores.a[i] =
                              IF i <= Len(locals[r].valores.a)
                              THEN locals[r].valores.a[i] ELSE PyNum(0)
            /\ (locals[r].etiquetas.k = "list" /\ Len(locals[r].etiquetas.a) < NCols) =>
                   /\ IsListOf(resp[r].etiquetas, NCols)
                   /\ \A i \in 1..NCols :
                          resp[r].etiquetas.a[i] =
                              IF i <= Len(locals[r].etiquetas.a)
                              THEN locals[r].etiquetas.a[i]
                              ELSE PyStr(<<"C", "o", "l", " ">> \o DecimalChars(i))

C5_Witness ==
    \E r \in Reqs :
        /\ resp[r].status = 200 /\ locals[r].path = "json"
        /\ IsListOf(locals[r].etiquetas, 2)
        /\ IsListOf(locals[r].valores, 0)

\* The digit-and-comma tokens of a text, stated on the text itself: a token
\* starts at a digit that no earlier token reaches, i.e. the nearest earlier
\* character that is no comma, if any, is no digit.
TokenStarts(s) ==
    {i \in 1..Len(s) :
        /\ IsDigit(s[i])
        /\ LET B == {j \in 1..(i - 1) : s[j] # ","}
           IN  B = {} \/ ~IsDigit(s[CHOOSE j \in B : \A k \in B : k <= j])}

KthOf(T, k) == CHOOSE i \in T : Cardinality({j \in T : j < i}) = k - 1

\* The values the fallback is to return for the text s with token starts T.
FallbackValues(s, T) ==
    PyList([k \in 1..NCols |->
              IF k <= Cardinality(T) THEN PyNum(ScanNumber(s, KthOf(T, k), 0)[1])
              ELSE PyNum(0)])

\* No brace region is found in s, or the region found does not parse.
NoUsableRegion(s) ==
    \/ re_search(s)[1] = 0
    \/ ~json_loads(SubSeq(s, re_search(s)[1], re_search(s)[2])).ok

\* C6: whenever no brace region is found or the region found fails to
\* parse, the values are the first 13 digit-and-comma tokens of the whole
\* text, commas stripped, zero-padded, and the labels are "Col 1".."Col 13".
C6_FallbackResult ==
    \A r \in Reqs :
        (Replied(r) /\ NoUsableRegion(locals[r].response)) =>
            /\ resp[r].status = 200
            /\ resp[r].valores =
                   FallbackValues(locals[r].response, TokenStarts(locals[r].response))
            /\ resp[r].etiquetas =
                   PyList([k \in 1..NCols |-> PyStr(<<"C", "o", "l", " ">> \o DecimalChars(k))])

C6_Witness ==
    \E r \in Reqs :
        /\ Replied(r)
        /\ re_search(locals[r].response)[1] # 0
        /\ NoUsableRegion(locals[r].response)
        /\ Cardinality(TokenStarts(locals[r].response)) > NCols
        /\ \E i \in 1..Len(locals[r].response) : locals[r].response[i] = ","
        /\ gen.et.present

\* C7: deleting a well-formed identifier that resolves to no stored record
\* ends with a 404 response.
C7_DeleteMissingIs404 ==
    (last.op = "delete" /\ last.id # BadId /\ ~last.resolved) => last.status = 404

\* C8: without an API key the request ends with an error response that
\* reports the missing key, and it creates no chat and sends no message.
C8_NoKeyNoCall ==
    \A r \in Reqs :
        ~apiKey =>
            /\ chats[r] = 0 /\ calls[r] = 0 /\ pc[r] # "awaiting"
            /\ Done(r) => (resp[r].status = 500 /\ resp[r].detail[2] = NoKeyError)

C8_Witness == \E r \in Reqs : ~apiKey /\ Done(r)

\* C9: a request issues at most one model call; when the call fails the
\* request is over, with a 500 response that carries the error's text, and
\* no second call was issued.
C9_OneCallNoRetry ==
    \A r \in Reqs :
        /\ calls[r] <= 1 /\ chats[r] <= 1
        /\ locals[r].e \in SendErrors =>
               /\ Done(r) /\ calls[r] = 1
               /\ resp[r].status = 500
               /\ resp[r].detail = <<"Error al analizar la imagen: ", locals[r].e>>

C9_Witness == \E r \in Reqs : locals[r].e \in SendErrors /\ Done(r)

\* C10: two requests that received the same raw text end with the same
\* response (labels, values, total), however their steps and those of the
\* other requests were interleaved.
C10_SameTextSameResult ==
    \A r1, r2 \in Reqs :
        (Replied(r1) /\ Replied(r2) /\ locals[r1].response = locals[r2].response) =>
            resp[r1] = resp[r2]

C10_Witness ==
    \E r1, r2 \in Reqs :
        /\ r1 # r2
        /\ resp[r1].status = 200 /\ resp[r2].status = 200
        /\ locals[r1].response = locals[r2].response
        /\ session[r1] # session[r2]
        /\ store # <<>>

\* The suffix that holds a second brace region, and the generated texts in
\* which it comes after a first one.
RegionSuffix ==
    <<" ", "{", Q, "v", "a", "l", "o", "r", "e", "s", Q, ":", " ", "[", "7", "]", "}">>

HasLaterRegion(g) ==
    /\ g.post = RegionSuffix
    /\ \/ g.pre = <<"{", "x", "}", " ">>
       \/ g.body = "broken"
       \/ g.body = "object" /\ (g.et.present \/ g.va.present)

\* What the handler answers to the text t, the echoed raw text left out.
AnswerOf(p) ==
    [build_result(p.response, p.etiquetas, p.valores) EXCEPT !.raw_response = <<>>]

Answer(t) == AnswerOf(Parsed(t))

\* C11 as stated: when the text holds several brace regions, taking the
\* later ones away never changes the result, whether the first region
\* parses or the fallback is taken.
C11_LaterRegionsIgnored ==
    \A r \in Reqs :
        (Replied(r) /\ locals[r].response = GenText(gen) /\ HasLaterRegion(gen)) =>
            [resp[r] EXCEPT !.raw_response = <<>>] = Answer(GenText([gen EXCEPT !.post = <<>>]))

\* The text without its later region, parsed, and what it is answered.
SameAsBase(own, base) ==
    /\ base.path = "json" => [own EXCEPT !.raw_response = <<>>] = AnswerOf(base)
    /\ base.path = "fallback" =>
           /\ own.status = 200
           /\ own.valores = FallbackValues(GenText(gen), TokenStarts(GenText(gen)))

\* C11 as amended: when the first region parses, taking the later regions
\* away does not change the result; when it does not parse, the values are
\* the digit-and-comma tokens of the whole text, those of the later regions
\* included.
C11_LaterRegionsNotParsed ==
    \A r \in Reqs :
        (Replied(r) /\ locals[r].response = GenText(gen) /\ HasLaterRegion(gen)) =>
            SameAsBase(resp[r], Parsed(GenText([gen EXCEPT !.post = <<>>])))

C11_Witness ==
    \E r \in Reqs :
        /\ Replied(r) /\ locals[r].response = GenText(gen) /\ HasLaterRegion(gen)
        /\ locals[r].path = "json" /\ resp[r].status = 200
        /\ gen.pre = <<"1", ",", "6", "8", "0", " ">>
        /\ IsListOf(locals[r].valores, NCols + MaxExtra)

\* C13: any two requests that created a chat use different session ids.
C13_SessionIdsDiffer ==
    \A r1, r2 \in Reqs :
        (r1 # r2 /\ chats[r1] > 0 /\ chats[r2] > 0) => session[r1] # session[r2]

\* The first brace region of s parses as a JSON object without the key.
RegionLacks(s, key) ==
    /\ re_search(s)[1] # 0
    /\ json_loads(SubSeq(s, re_search(s)[1], re_search(s)[2])).ok
    /\ \A i \in 1..Len(json_loads(SubSeq(s, re_search(s)[1], re_search(s)[2])).val.keys) :
           json_loads(SubSeq(s, re_search(s)[1], re_search(s)[2])).val.keys[i] # key

\* C14: when the first brace region parses as an object without "valores"
\* (or without "etiquetas"), the fallback is not taken: the missing field is
\* the empty list, padded to 13 zeros (or "Col 1".."Col 13"), and the total
\* of a response without "valores" is 0 whatever numbers the text holds.
C14_MissingKeyIsEmptyList ==
    \A r \in Reqs :
        Replied(r) =>
            /\ RegionLacks(locals[r].response, S_valores) =>
                   /\ locals[r].path = "json"
                   /\ locals[r].valores = PyList(<<>>)
                   /\ resp[r].status = 200 =>
                          /\ resp[r].valores = PyList([k \in 1..NCols |-> PyNum(0)])
                          /\ resp[r].suma_total = 0
            /\ RegionLacks(locals[r].response, S_etiquetas) =>
                   /\ locals[r].path = "json"
                   /\ locals[r].etiquetas = PyList(<<>>)
                   /\ resp[r].status = 200 =>
                          resp[r].etiquetas =
                              PyList([k \in 1..NCols |->
                                        PyStr(<<"C", "o", "l", " ">> \o DecimalChars(k))])

C14_Witness ==
    \E r \in Reqs :
        /\ Replied(r) /\ resp[r].status = 200
        /\ RegionLacks(locals[r].response, S_valores)
        /\ TokenStarts(locals[r].response) # {}
        /\ IsListOf(locals[r].etiquetas, 2)

DeliveredWellFormed ==
    /\ last.op \in {"send_email", "generar_whatsapp_link"}
    /\ last.detail # <<ErrorPrefix(last.op), "InvalidId">>

NumFound == Cardinality({k \in DOMAIN last.found : last.found[k]})

\* C15: send_email and generar_whatsapp_link on well-formed identifiers
\* answer 404 exactly when no identifier resolved; when one did, the
\* unresolved ones cause no error: the answer is the success response whose
\* count is the number of identifiers that resolved, or, for send_email, the
\* 500 of a failed send.
C15_NotFoundIffNoneResolves ==
    DeliveredWellFormed =>
        /\ last.status = 404 <=> NumFound = 0
        /\ NumFound > 0 =>
               \/ last.status = 200 /\ last.count = NumFound
               \/ /\ last.op = "send_email" /\ last.status = 500
                  /\ last.detail[2] \in {"SMTPException", "Exception"}

C15_Witness ==
    /\ DeliveredWellFormed
    /\ last.op = "generar_whatsapp_link" /\ last.status = 200
    /\ last.found = <<TRUE, FALSE>> /\ last.count = 1
====
